---- MODULE Spec2Model ----
(***************************************************************************)
(* Model of stock-news (src/main.py): a command-line client that builds a  *)
(* GDELT search query, issues one HTTP GET and prints the articles.        *)
(*                                                                         *)
(* Python strings are sequences of one-character strings, so that strip,   *)
(* split, join, int() and strftime are computed and not assumed.           *)
(***************************************************************************)
EXTENDS Integers, Sequences, FiniteSets, TLC

(***************************************************************************)
(* Program constants                                                       *)
(***************************************************************************)
MAX_RECORDS == 250
MIN_KEYWORD_LEN == 3
SNIPPET_LEN == 500

(***************************************************************************)
(* Bounds of the explored inputs                                           *)
(***************************************************************************)
\* longest keyword list passed to build_query directly
MaxKeywords == 2
\* most entries of the articles list of a response
MaxArticles == 2

(***************************************************************************)
(* Python str primitives                                                   *)
(***************************************************************************)
\* characters str.strip() removes: of Python's whitespace, the two the
\* explored inputs contain
Whitespace == {" ", "\t"}

RECURSIVE lstrip(_)
lstrip(s) ==
  IF s = <<>> THEN s
  ELSE IF Head(s) \in Whitespace THEN lstrip(Tail(s)) ELSE s

RECURSIVE rstrip(_)
rstrip(s) ==
  IF s = <<>> THEN s
  ELSE IF s[Len(s)] \in Whitespace THEN rstrip(SubSeq(s, 1, Len(s) - 1)) ELSE s

strip(s) == rstrip(lstrip(s))

\* c in s
Contains(s, c) == \E i \in 1..Len(s) : s[i] = c

\* s.split(","): always at least one piece
RECURSIVE split(_)
split(s) ==
  IF ~Contains(s, ",") THEN <<s>>
  ELSE LET i == CHOOSE k \in 1..Len(s) :
                  s[k] = "," /\ \A j \in 1..(k - 1) : s[j] # ","
       IN <<SubSeq(s, 1, i - 1)>> \o split(SubSeq(s, i + 1, Len(s)))

\* sep.join(items)
RECURSIVE join(_, _)
join(sep, items) ==
  IF items = <<>> THEN <<>>
  ELSE IF Len(items) = 1 THEN items[1]
  ELSE items[1] \o sep \o join(sep, Tail(items))

\* Python None for an optional sequence argument
None == [none |-> TRUE, v |-> <<>>]
Some(x) == [none |-> FALSE, v |-> x]
\* truthiness of an optional sequence: None and [] are both falsy
Truthy(opt) == ~opt.none /\ opt.v # <<>>

(***************************************************************************)
(* String literals of the source                                           *)
(***************************************************************************)
QUOTE == "\""
AND_SEP == <<" ", "A", "N", "D", " ">>
OR_SEP == <<" ", "O", "R", " ">>
SOURCELANG == <<"s", "o", "u", "r", "c", "e", "l", "a", "n", "g", ":",
                "e", "n", "g", "l", "i", "s", "h">>

(***************************************************************************)
(* _normalize_term (src/main.py:33-39)                                     *)
(***************************************************************************)
\* phrases are not quoted
_normalize_term_Unquoted(term) == strip(term)

_normalize_term(term) ==
  LET t == strip(term) IN
  IF t = <<>> THEN <<>>
  ELSE IF Contains(t, " ") THEN <<QUOTE>> \o t \o <<QUOTE>>
  ELSE t

(***************************************************************************)
(* normalize_keywords (src/main.py:42-64)                                  *)
(***************************************************************************)
\* a keyword one character longer is skipped too
IsTooShort_OffByOne(kw) == Len(kw) <= MIN_KEYWORD_LEN

\* len(kw) < MIN_KEYWORD_LEN
IsTooShort(kw) == Len(kw) < MIN_KEYWORD_LEN

RECURSIVE ScanParts(_, _)
ScanParts(parts, acc) ==
  IF parts = <<>> THEN acc
  ELSE LET kw == strip(Head(parts)) IN
       ScanParts(Tail(parts),
         IF kw = <<>> THEN acc
         ELSE IF IsTooShort(kw)
              THEN [acc EXCEPT !.skipped = Append(@, kw)]
              ELSE [acc EXCEPT !.usable = Append(@, kw)])

RECURSIVE ScanItems(_, _)
ScanItems(items, acc) ==
  IF items = <<>> THEN acc
  ELSE ScanItems(Tail(items), ScanParts(split(Head(items)), acc))

normalize_keywords(raw_keywords) ==
  IF ~Truthy(raw_keywords) THEN [usable |-> <<>>, skipped |-> <<>>]
  ELSE ScanItems(raw_keywords.v, [usable |-> <<>>, skipped |-> <<>>])

(***************************************************************************)
(* build_query (src/main.py:67-86)                                         *)
(* Result: raised = TRUE for the ValueError, else value is the query.      *)
(***************************************************************************)
SelectNonEmpty(seq) == SelectSeq(seq, LAMBDA k : k # <<>>)

MapNormalize(keywords) == [i \in 1..Len(keywords) |-> _normalize_term(keywords[i])]

\* the quoted alternative is left out
SymbolClause_Bare(symbol) == <<"(">> \o symbol \o OR_SEP \o symbol \o <<")">>

SymbolClause(symbol) ==
  <<"(", QUOTE>> \o symbol \o <<QUOTE>> \o OR_SEP \o symbol \o <<")">>

KeywordParts(keywords) ==
  IF ~Truthy(keywords) THEN <<>>
  ELSE LET normalized == SelectNonEmpty(MapNormalize(keywords.v)) IN
       IF normalized = <<>> THEN <<>>
       ELSE IF Len(normalized) = 1 THEN <<normalized[1]>>
       ELSE << <<"(">> \o join(OR_SEP, normalized) \o <<")">> >>

\* the symbol is not validated
build_query_Unchecked(symbol, keywords, english_only) ==
  LET sym == strip(symbol)
      parts == <<SymbolClause(sym)>>
               \o KeywordParts(keywords)
               \o (IF english_only THEN <<SOURCELANG>> ELSE <<>>)
  IN [raised |-> FALSE, value |-> join(AND_SEP, parts)]

build_query(symbol, keywords, english_only) ==
  LET sym == strip(symbol) IN
  IF sym = <<>> THEN [raised |-> TRUE, value |-> <<>>]
  ELSE LET parts == <<SymbolClause(sym)>>
                    \o KeywordParts(keywords)
                    \o (IF english_only THEN <<SOURCELANG>> ELSE <<>>)
       IN [raised |-> FALSE, value |-> join(AND_SEP, parts)]

(***************************************************************************)
(* int(token), as argparse applies it for type=int (src/main.py:173,180)   *)
(***************************************************************************)
Digits == <<"0", "1", "2", "3", "4", "5", "6", "7", "8", "9">>
IsDigit(c) == \E d \in 1..10 : Digits[d] = c
DigitValue(c) == (CHOOSE d \in 1..10 : Digits[d] = c) - 1
AllDigits(s) == s # <<>> /\ \A i \in 1..Len(s) : IsDigit(s[i])

RECURSIVE DigitsValue(_)
DigitsValue(s) ==
  IF s = <<>> THEN 0
  ELSE 10 * DigitsValue(SubSeq(s, 1, Len(s) - 1)) + DigitValue(s[Len(s)])

\* int(s): surrounding whitespace and one sign are accepted, then digits
ParseInt(s) ==
  LET t == strip(s)
      signed == t # <<>> /\ Head(t) \in {"-", "+"}
      body == IF signed THEN Tail(t) ELSE t
  IN IF ~AllDigits(body) THEN [ok |-> FALSE, value |-> 0]
     ELSE [ok |-> TRUE,
           value |-> IF signed /\ Head(t) = "-" THEN 0 - DigitsValue(body)
                     ELSE DigitsValue(body)]

(***************************************************************************)
(* parse_args (src/main.py:157-189): the argparse parser of the program    *)
(***************************************************************************)
OPT_K == {<<"-", "k">>, <<"-", "-", "k", "e", "y", "w", "o", "r", "d">>}
OPT_D == {<<"-", "d">>, <<"-", "-", "d", "a", "y", "s">>}
OPT_L == {<<"-", "l">>, <<"-", "-", "l", "i", "m", "i", "t">>}
OPT_ALLOW == {<<"-", "-", "a", "l", "l", "o", "w", "-", "n", "o", "n", "-",
                "e", "n", "g", "l", "i", "s", "h">>}
OPT_HELP == {<<"-", "h">>, <<"-", "-", "h", "e", "l", "p">>}
OptionStrings == OPT_K \cup OPT_D \cup OPT_L \cup OPT_ALLOW \cup OPT_HELP

\* argparse treats "-<digits>" as an argument, not as an option
NegativeNumberLike(tok) == Len(tok) >= 2 /\ Head(tok) = "-" /\ AllDigits(Tail(tok))

\* a token that looks like an option but is none of the parser's
UnknownOption(tok) ==
  /\ Len(tok) >= 2
  /\ Head(tok) = "-"
  /\ tok \notin OptionStrings
  /\ ~NegativeNumberLike(tok)
  /\ ~Contains(tok, " ")

\* a token usable as a positional or as an option's value
IsArgument(tok) == tok \notin OptionStrings /\ ~UnknownOption(tok)

DefaultNamespace ==
  [has_symbol |-> FALSE, symbol |-> <<>>, keywords |-> None,
   days |-> 3, limit |-> 25, allow_non_english |-> FALSE]

UsageError == [outcome |-> "error", ns |-> DefaultNamespace]
HelpExit == [outcome |-> "help", ns |-> DefaultNamespace]

\* argparse's left-to-right scan, for the forms the explored command lines
\* use: exact option strings followed by a separate value (no abbreviated
\* option, no "--opt=value", no "--")
RECURSIVE ParseTokens(_, _)
ParseTokens(toks, ns) ==
  IF toks = <<>> THEN
    \* the positional symbol is required
    IF ns.has_symbol THEN [outcome |-> "ok", ns |-> ns] ELSE UsageError
  ELSE
    LET tok == Head(toks)
        rest == Tail(toks)
        hasValue == rest # <<>> /\ IsArgument(Head(rest))
    IN IF tok \in OPT_HELP THEN HelpExit
       ELSE IF tok \in OPT_ALLOW
         THEN ParseTokens(rest, [ns EXCEPT !.allow_non_english = TRUE])
       ELSE IF tok \in OPT_K THEN
         IF ~hasValue THEN UsageError
         ELSE ParseTokens(Tail(rest),
                [ns EXCEPT !.keywords = Some(Append(@.v, Head(rest)))])
       ELSE IF tok \in OPT_D THEN
         IF ~hasValue \/ ~ParseInt(Head(rest)).ok THEN UsageError
         ELSE ParseTokens(Tail(rest), [ns EXCEPT !.days = ParseInt(Head(rest)).value])
       ELSE IF tok \in OPT_L THEN
         IF ~hasValue \/ ~ParseInt(Head(rest)).ok THEN UsageError
         ELSE ParseTokens(Tail(rest), [ns EXCEPT !.limit = ParseInt(Head(rest)).value])
       ELSE IF UnknownOption(tok) \/ ns.has_symbol THEN UsageError
       ELSE ParseTokens(rest, [ns EXCEPT !.has_symbol = TRUE, !.symbol = tok])

parse_args(argv) == ParseTokens(argv, DefaultNamespace)

(***************************************************************************)
(* datetime arithmetic and strftime("%Y%m%d%H%M%S") (src/main.py:111-112)  *)
(* A datetime is [ordinal, sec]: the proleptic Gregorian day number        *)
(* (0001-01-01 is day 1) and the second of the day.                        *)
(***************************************************************************)
IsLeap(y) == y % 4 = 0 /\ (y % 100 # 0 \/ y % 400 = 0)
DaysInMonth(y, m) ==
  IF m = 2 THEN (IF IsLeap(y) THEN 29 ELSE 28)
  ELSE IF m \in {4, 6, 9, 11} THEN 30 ELSE 31

RECURSIVE DaysBeforeMonth(_, _)
DaysBeforeMonth(y, m) ==
  IF m = 1 THEN 0 ELSE DaysBeforeMonth(y, m - 1) + DaysInMonth(y, m - 1)

\* datetime's ordinal -> (year, month, day)
ord2ymd(ordinal) ==
  LET n0 == ordinal - 1
      n400 == n0 \div 146097
      r400 == n0 % 146097
      n100 == r400 \div 36524
      r100 == r400 % 36524
      n4 == r100 \div 1461
      r4 == r100 % 1461
      n1 == r4 \div 365
      r1 == r4 % 365
      year == n400 * 400 + n100 * 100 + n4 * 4 + n1 + 1
  IN IF n1 = 4 \/ n100 = 4 THEN [y |-> year - 1, m |-> 12, d |-> 31]
     ELSE LET month == CHOOSE m \in 1..12 :
                         /\ DaysBeforeMonth(year, m) <= r1
                         /\ r1 < DaysBeforeMonth(year, m) + DaysInMonth(year, m)
          IN [y |-> year, m |-> month, d |-> r1 - DaysBeforeMonth(year, month) + 1]

\* now - timedelta(days=days): OverflowError when the date leaves year 1..9999
MinusDays(now, days) ==
  IF now.ordinal - days < 1 THEN [raised |-> TRUE, value |-> now]
  ELSE [raised |-> FALSE, value |-> [now EXCEPT !.ordinal = @ - days]]

TwoDigits(n) == <<Digits[(n \div 10) + 1], Digits[(n % 10) + 1]>>

RECURSIVE IntDigits(_)
IntDigits(n) ==
  IF n < 10 THEN <<Digits[n + 1]>> ELSE IntDigits(n \div 10) \o <<Digits[(n % 10) + 1]>>

RECURSIVE ZeroPad(_, _)
ZeroPad(s, width) == IF Len(s) >= width THEN s ELSE ZeroPad(<<"0">> \o s, width)

\* %Y: the C library decides whether a year below 1000 is zero-padded
YearDigits(y, pad_year) == IF pad_year THEN ZeroPad(IntDigits(y), 4) ELSE IntDigits(y)

strftime(dt, pad_year) ==
  LET ymd == ord2ymd(dt.ordinal) IN
  YearDigits(ymd.y, pad_year) \o TwoDigits(ymd.m) \o TwoDigits(ymd.d)
    \o TwoDigits(dt.sec \div 3600) \o TwoDigits((dt.sec % 3600) \div 60)
    \o TwoDigits(dt.sec % 60)

(***************************************************************************)
(* fetch_articles: clamping (src/main.py:96-97)                            *)
(***************************************************************************)
Min(a, b) == IF a < b THEN a ELSE b
Max(a, b) == IF a > b THEN a ELSE b

\* the lower bound is not applied
ClampLimit_NoFloor(limit) == Min(limit, MAX_RECORDS)

ClampLimit(limit) == Max(1, Min(limit, MAX_RECORDS))
ClampDays(days) == Max(0, days)

(***************************************************************************)
(* Python values of the decoded response (src/main.py:124-136)             *)
(* A JSON member is absent, null or a string.                              *)
(***************************************************************************)
ABSENT == "<absent>"
JNULL == "<null>"
PY_NONE == "<None>"

FieldNames == {"title", "url", "seendate", "sourceCommonName", "sourcecountry",
               "language", "domain"}

\* dict.get(key): None for a missing key, and JSON null decodes to None
DictGet(entry, key) ==
  IF entry.f[key] \in {ABSENT, JNULL} THEN PY_NONE ELSE entry.f[key]

\* a or b
PyOr(a, b) == IF a \in {PY_NONE, ""} THEN b ELSE a

ArticleOf(entry) ==
  [title |-> DictGet(entry, "title"),
   url |-> DictGet(entry, "url"),
   seendate |-> DictGet(entry, "seendate"),
   source |-> PyOr(DictGet(entry, "sourceCommonName"), DictGet(entry, "sourcecountry")),
   language |-> DictGet(entry, "language"),
   domain |-> DictGet(entry, "domain")]

\* data.get("articles", []) and the loop over it; error names the exception
\* the first failing statement raises
ExtractResults(data) ==
  IF data.kind # "object" THEN [error |-> "AttributeError", results |-> <<>>]
  ELSE IF ~data.has_articles THEN [error |-> "", results |-> <<>>]
  ELSE IF data.articles_kind # "list" THEN [error |-> "TypeError", results |-> <<>>]
  ELSE IF \E i \in 1..Len(data.items) : ~data.items[i].is_object
    THEN [error |-> "AttributeError", results |-> <<>>]
  ELSE [error |-> "",
        results |-> [i \in 1..Len(data.items) |-> ArticleOf(data.items[i])]]

(***************************************************************************)
(* print_articles (src/main.py:140-154): one record per print call         *)
(***************************************************************************)
Line(tag, idx, payload) == [tag |-> tag, idx |-> idx, payload |-> payload]

ArticleLines(article, idx) ==
  << Line("article_title", idx, <<PyOr(article.title, "No title")>>),
     Line("article_source", idx, <<PyOr(article.source, "unknown source"),
                                   PyOr(article.seendate, "unknown date"),
                                   PyOr(article.language, "?")>>),
     Line("article_url", idx, <<PyOr(article.url, "unknown URL")>>) >>

RECURSIVE PrintedFrom(_, _)
PrintedFrom(articles, idx) ==
  IF idx > Len(articles) THEN <<>>
  ELSE ArticleLines(articles[idx], idx) \o PrintedFrom(articles, idx + 1)

print_articles(articles) ==
  IF articles = <<>> THEN <<Line("no_articles", 0, <<"No articles found.">>)>>
  ELSE PrintedFrom(articles, 1)

\* main's usage examples (src/main.py:12-19, 195-198)
EXAMPLE_COMMANDS ==
  <<"MSFT -k \"guidance, investigation\" -d 5 -l 40",
    "\"NVIDIA\" -k \"ai, chips, guidance\"",
    "AAPL -k \"earnings, outlook\" -d 2",
    "\"Tesla\" --allow-non-english -l 15",
    "\"Bank of America\" -k \"downgrade, investigation\" -d 10 -l 40",
    "\"Meta\" -k \"privacy, regulation\" -d 7">>

ExampleLines ==
  <<Line("try", 0, <<"Try one of these commands:">>)>>
  \o [i \in 1..Len(EXAMPLE_COMMANDS) |-> Line("example", i, <<EXAMPLE_COMMANDS[i]>>)]
  \o <<Line("use_help", 0, <<"\nUse -h/--help for full options.">>)>>

GDELT_URL == "https://api.gdeltproject.org/api/v2/doc/doc"

(***************************************************************************)
(* Explored inputs                                                          *)
(***************************************************************************)
T_AB == <<"A", "B">>
T_AB_PADDED == <<" ", "A", "B", " ">>
T_BLANK == <<" ">>
T_A_B == <<"A", " ", "B">>

\* "ab, abc, de,  ,xyz"
RK_EXAMPLE == <<"a", "b", ",", " ", "a", "b", "c", ",", " ", "d", "e", ",",
                " ", " ", ",", "x", "y", "z">>
RK_PHRASE == <<"a", " ", "b">>
RK_TAB == <<"a", "\t", "b">>
RK_SHORT == <<"x", "y">>
RK_BLANKS == <<" ", ",", " ">>

SymbolTokens == {T_AB, T_AB_PADDED, T_BLANK}
KeywordOptionLists ==
  {<<>>, <<RK_EXAMPLE>>, <<RK_PHRASE, RK_TAB>>, <<RK_SHORT>>,
   <<RK_EXAMPLE, RK_PHRASE>>, <<RK_BLANKS>>}
DaysTokens == {<<"0">>, <<"-", "1">>, <<"5">>, <<"4", "0", "0", "0", "0", "0">>,
               <<"8", "0", "0", "0", "0", "0">>}
LimitTokens == {<<"0">>, <<"-", "3">>, <<"9", "9", "9", "9">>, <<"2", "5", "0">>,
                <<"2", "5", "1">>, <<"4", "0">>}

O_K == <<"-", "k">>
O_D == <<"-", "d">>
O_L == <<"-", "l">>
O_ALLOW == <<"-", "-", "a", "l", "l", "o", "w", "-", "n", "o", "n", "-",
             "e", "n", "g", "l", "i", "s", "h">>

RECURSIVE KeywordOptions(_)
KeywordOptions(raws) ==
  IF raws = <<>> THEN <<>> ELSE <<O_K, Head(raws)>> \o KeywordOptions(Tail(raws))

RegularCommandLines ==
  { <<sym>> \o KeywordOptions(kws) \o <<O_D, d, O_L, l>>
      \o (IF allow THEN <<O_ALLOW>> ELSE <<>>) :
    sym \in SymbolTokens, kws \in KeywordOptionLists, d \in DaysTokens,
    l \in LimitTokens, allow \in BOOLEAN }

SpecialCommandLines ==
  { <<>>,
    <<T_AB>>,
    << <<>> >>,
    <<T_A_B, <<"-", "-", "d", "a", "y", "s">>, <<" ", "+", "2">> >>,
    << <<"-", "h">> >>,
    <<T_AB, O_D, <<"x">> >>,
    <<T_AB, O_D>>,
    <<T_AB, O_L, <<"1", "x">> >>,
    <<O_K, RK_PHRASE>>,
    <<T_AB, T_AB>>,
    <<T_AB, <<"-", "z">> >> }

CommandLines == RegularCommandLines \cup SpecialCommandLines

\* main(argv) called with an explicit list
ExplicitArgv == {<<>>, <<T_AB, O_L, <<"4", "0">> >>}

\* values the clock can hold when datetime.now is read
Nows == {[ordinal |-> 739924, sec |-> 3723], [ordinal |-> 738945, sec |-> 86399]}

TextOfLength(n) == [i \in 1..n |-> IF i % 2 = 1 THEN "<" ELSE "h"]

FullEntry ==
  [is_object |-> TRUE,
   f |-> [k \in FieldNames |->
            CASE k = "title" -> "Title"
              [] k = "url" -> "http://u"
              [] k = "seendate" -> "20261104T010203Z"
              [] k = "sourceCommonName" -> "Source"
              [] k = "sourcecountry" -> "US"
              [] k = "language" -> "English"
              [] OTHER -> "u.example"]]
PartialEntry ==
  [is_object |-> TRUE,
   f |-> [k \in FieldNames |->
            CASE k = "title" -> JNULL
              [] k = "sourceCommonName" -> ""
              [] k = "sourcecountry" -> "US"
              [] k = "language" -> ""
              [] OTHER -> ABSENT]]
NonObjectEntry == [is_object |-> FALSE, f |-> [k \in FieldNames |-> ABSENT]]
EntrySamples == {FullEntry, PartialEntry, NonObjectEntry}

BoundedSeqs(S, n) == UNION {[1..k -> S] : k \in 0..n}

NoData == [kind |-> "none", has_articles |-> FALSE, articles_kind |-> "", items |-> <<>>]
Documents ==
  { [kind |-> "object", has_articles |-> FALSE, articles_kind |-> "", items |-> <<>>],
    [kind |-> "object", has_articles |-> TRUE, articles_kind |-> "null", items |-> <<>>],
    [kind |-> "array", has_articles |-> FALSE, articles_kind |-> "", items |-> <<>>] }
  \cup { [kind |-> "object", has_articles |-> TRUE, articles_kind |-> "list", items |-> es] :
         es \in BoundedSeqs(EntrySamples, MaxArticles) }

\* a body is its text and what response.json() makes of it
Bodies ==
  { [valid |-> TRUE, text |-> <<"{", "}">>, doc |-> d] : d \in Documents }
  \cup { [valid |-> FALSE, text |-> TextOfLength(n), doc |-> NoData] :
         n \in {0, 3, SNIPPET_LEN + 1} }

\* a success status comes with any body; a failure status with a decodable
\* and with an undecodable one
Responses ==
  { [status |-> 200, body |-> b] : b \in Bodies }
  \cup { [status |-> st, body |-> b] :
         st \in {404, 500},
         b \in { [valid |-> TRUE, text |-> <<"{", "}">>,
                  doc |-> [kind |-> "object", has_articles |-> TRUE,
                           articles_kind |-> "list", items |-> <<FullEntry>>]],
                 [valid |-> FALSE, text |-> TextOfLength(3), doc |-> NoData] } }
NoResponse == [status |-> 0, body |-> [valid |-> FALSE, text |-> <<>>, doc |-> NoData]]
NoException == [type |-> "", status |-> 0, snippet |-> <<>>]
Exception(type) == [type |-> type, status |-> 0, snippet |-> <<>>]

\* direct calls of build_query
QuerySymbols == {T_AB, T_AB_PADDED, T_BLANK, <<>>, T_A_B}
QueryKeywords == {<<"a", "b", "c">>, RK_PHRASE, RK_TAB, <<" ", "a", "b">>, <<" ", " ">>}
QueryKeywordLists == {None} \cup {Some(ks) : ks \in BoundedSeqs(QueryKeywords, MaxKeywords)}

(***************************************************************************)
(* State of one run of main (src/main.py:192-223)                          *)
(***************************************************************************)
VARIABLES
  pc,            \* position of the run
  argv,          \* main's argument: None or a list
  sys_argv,      \* sys.argv[1:]
  args_list,     \* main's args_list
  parse_outcome, \* "" before parse_args, then "ok", "error" or "help"
  args,          \* the argparse namespace
  keywords,      \* usable keywords
  skipped,       \* skipped keywords
  limit,         \* fetch_articles' limit after clamping
  days,          \* fetch_articles' days after clamping
  query,         \* the built query
  now,           \* the clock value datetime.now returned
  params,        \* the request parameters
  pip_runs,      \* runs of "pip install requests"
  get_count,     \* calls of requests.get
  request,       \* the request sent
  response,      \* the response received
  json_calls,    \* calls of response.json()
  data,          \* the decoded body
  articles,      \* fetch_articles' result
  returned,      \* fetch_articles returned a list
  exc,           \* the exception raised inside main's try block
  stdout,        \* print calls so far
  stderr,        \* argparse's usage messages
  exit_status,   \* main's return value or SystemExit code, -1 while running
  \* a direct call of build_query
  q_pc, q_symbol, q_keywords, q_english, q_result

mainVars == <<pc, argv, sys_argv, args_list, parse_outcome, args, keywords, skipped,
              limit, days, query, now, params, pip_runs, get_count, request,
              response, json_calls, data, articles, returned, exc, stdout, stderr,
              exit_status>>
queryVars == <<q_pc, q_symbol, q_keywords, q_english, q_result>>
vars == <<mainVars, queryVars>>

NoParams == [query |-> <<>>]
NoRequest == [url |-> "", params |-> NoParams, timeout |-> 0]
NoNow == [ordinal |-> 0, sec |-> 0]

MainLocalsInit ==
  /\ pc = "start"
  /\ args_list = <<>>
  /\ parse_outcome = ""
  /\ args = DefaultNamespace
  /\ keywords = <<>>
  /\ skipped = <<>>
  /\ limit = 0
  /\ days = 0
  /\ query = <<>>
  /\ now = NoNow
  /\ params = NoParams
  /\ pip_runs = 0
  /\ get_count = 0
  /\ request = NoRequest
  /\ response = NoResponse
  /\ json_calls = 0
  /\ data = NoData
  /\ articles = <<>>
  /\ returned = FALSE
  /\ exc = NoException
  /\ stdout = <<>>
  /\ stderr = <<>>
  /\ exit_status = -1

QueryIdle ==
  /\ q_pc = "idle"
  /\ q_symbol = <<>>
  /\ q_keywords = None
  /\ q_english = TRUE
  /\ q_result = <<>>

\* the program started from the command line, or main called with a list
Init ==
  /\ \/ argv = None /\ sys_argv \in CommandLines
     \/ argv \in {Some(a) : a \in ExplicitArgv} /\ sys_argv \in {<<>>, <<T_AB>>}
  /\ MainLocalsInit
  /\ QueryIdle

(***************************************************************************)
(* main (src/main.py:192-223)                                              *)
(***************************************************************************)
\* list(argv or sys.argv[1:])
EffectiveArgs == IF Truthy(argv) THEN argv.v ELSE sys_argv

Exit(status) == exit_status' = status /\ pc' = "done"
Raise(e) == exc' = e /\ pc' = "except"

\* lines 193-199
MainStart ==
  /\ pc = "start"
  /\ args_list' = EffectiveArgs
  /\ IF EffectiveArgs = <<>>
       THEN /\ stdout' = stdout \o ExampleLines
            /\ Exit(1)
       ELSE /\ pc' = "parse"
            /\ UNCHANGED <<stdout, exit_status>>
  /\ UNCHANGED <<argv, sys_argv, parse_outcome, args, keywords, skipped, limit, days,
                 query, now, params, pip_runs, get_count, request, response,
                 json_calls, data, articles, returned, exc, stderr, queryVars>>

\* line 201: argparse ends the process itself on a usage error (status 2)
\* and on -h (status 0)
ParseArgs ==
  /\ pc = "parse"
  /\ LET r == parse_args(args_list) IN
     /\ parse_outcome' = r.outcome
     /\ args' = r.ns
     /\ CASE r.outcome = "error" ->
               /\ stderr' = Append(stderr, Line("usage_error", 0, <<>>))
               /\ Exit(2)
               /\ UNCHANGED stdout
          [] r.outcome = "help" ->
               /\ stdout' = Append(stdout, Line("help", 0, <<>>))
               /\ Exit(0)
               /\ UNCHANGED stderr
          [] OTHER ->
               /\ pc' = "normalize"
               /\ UNCHANGED <<stdout, stderr, exit_status>>
  /\ UNCHANGED <<argv, sys_argv, args_list, keywords, skipped, limit, days, query, now,
                 params, pip_runs, get_count, request, response, json_calls, data,
                 articles, returned, exc, queryVars>>

\* lines 204-209
NormalizeKeywords ==
  /\ pc = "normalize"
  /\ LET r == normalize_keywords(args.keywords) IN
     /\ keywords' = r.usable
     /\ skipped' = r.skipped
     /\ stdout' = IF r.skipped # <<>>
                    THEN Append(stdout, Line("skipping", 0, r.skipped))
                    ELSE stdout
  /\ pc' = "fetch"
  /\ UNCHANGED <<argv, sys_argv, args_list, parse_outcome, args, limit, days, query,
                 now, params, pip_runs, get_count, request, response, json_calls,
                 data, articles, returned, exc, stderr, exit_status, queryVars>>

\* lines 211-217 and 96-99: the call, the clamping and build_query
FetchArticles ==
  /\ pc = "fetch"
  /\ limit' = ClampLimit(args.limit)
  /\ days' = ClampDays(args.days)
  /\ LET q == build_query(args.symbol, Some(keywords), ~args.allow_non_english) IN
     IF q.raised
       THEN /\ Raise(Exception("ValueError"))
            /\ UNCHANGED query
       ELSE /\ query' = q.value
            /\ pc' = "ensure"
            /\ UNCHANGED exc
  /\ UNCHANGED <<argv, sys_argv, args_list, parse_outcome, args, keywords, skipped, now,
                 params, pip_runs, get_count, request, response, json_calls, data,
                 articles, returned, stdout, stderr, exit_status, queryVars>>

\* lines 100 and 23-25: requests is importable
ImportRequests ==
  /\ pc = "ensure"
  /\ pc' = "params"
  /\ UNCHANGED <<argv, sys_argv, args_list, parse_outcome, args, keywords, skipped,
                 limit, days, query, now, params, pip_runs, get_count, request,
                 response, json_calls, data, articles, returned, exc, stdout, stderr,
                 exit_status, queryVars>>

\* lines 26-30: requests is missing; pip runs, and pip or the second import may fail
InstallRequests ==
  /\ pc = "ensure"
  /\ stdout' = Append(stdout, Line("installing", 0, <<"Installing requests...">>))
  /\ pip_runs' = pip_runs + 1
  /\ \/ pc' = "params" /\ UNCHANGED exc
     \/ Raise(Exception("CalledProcessError"))
     \/ Raise(Exception("ModuleNotFoundError"))
  /\ UNCHANGED <<argv, sys_argv, args_list, parse_outcome, args, keywords, skipped,
                 limit, days, query, now, params, get_count, request, response,
                 json_calls, data, articles, returned, stderr, exit_status, queryVars>>

BaseParams ==
  [query |-> query, mode |-> "ArtList", format |-> "json", maxrecords |-> limit,
   sort |-> "datedesc"]

\* lines 102-112
BuildParams ==
  /\ pc = "params"
  /\ IF days > 0
       THEN \E clock \in Nows, pad_year \in BOOLEAN :
              LET start == MinusDays(clock, days) IN
              /\ now' = clock
              /\ IF start.raised
                   THEN /\ params' = BaseParams
                        /\ Raise(Exception("OverflowError"))
                   ELSE /\ params' = BaseParams @@
                             [startdatetime |-> strftime(start.value, pad_year)]
                        /\ pc' = "get"
                        /\ UNCHANGED exc
       ELSE /\ params' = BaseParams
            /\ pc' = "get"
            /\ UNCHANGED <<now, exc>>
  /\ UNCHANGED <<argv, sys_argv, args_list, parse_outcome, args, keywords, skipped,
                 limit, days, query, pip_runs, get_count, request, response,
                 json_calls, data, articles, returned, stdout, stderr, exit_status,
                 queryVars>>

\* line 114: the GET; it raises (connection error, timeout) or yields a response
HttpGet ==
  /\ pc = "get"
  /\ get_count' = get_count + 1
  /\ request' = [url |-> GDELT_URL, params |-> params, timeout |-> 10]
  /\ \/ /\ \E t \in {"ConnectionError", "Timeout"} : Raise(Exception(t))
        /\ UNCHANGED response
     \/ /\ response' \in Responses
        /\ pc' = "status"
        /\ UNCHANGED exc
  /\ UNCHANGED <<argv, sys_argv, args_list, parse_outcome, args, keywords, skipped,
                 limit, days, query, now, params, pip_runs, json_calls, data,
                 articles, returned, stdout, stderr, exit_status, queryVars>>

\* the status is not checked
RaiseForStatus_Unchecked ==
  /\ pc = "status"
  /\ pc' = "json"
  /\ UNCHANGED <<argv, sys_argv, args_list, parse_outcome, args, keywords, skipped,
                 limit, days, query, now, params, pip_runs, get_count, request,
                 response, json_calls, data, articles, returned, exc, stdout, stderr,
                 exit_status, queryVars>>

\* a failed request is sent once more
RaiseForStatus_Retry ==
  /\ pc = "status"
  /\ IF response.status >= 400 /\ response.status < 600
       THEN IF get_count < 2
              THEN pc' = "get" /\ UNCHANGED exc
              ELSE Raise([type |-> "HTTPError", status |-> response.status,
                          snippet |-> <<>>])
       ELSE pc' = "json" /\ UNCHANGED exc
  /\ UNCHANGED <<argv, sys_argv, args_list, parse_outcome, args, keywords, skipped,
                 limit, days, query, now, params, pip_runs, get_count, request,
                 response, json_calls, data, articles, returned, stdout, stderr,
                 exit_status, queryVars>>

\* line 115: response.raise_for_status()
RaiseForStatus ==
  /\ pc = "status"
  /\ IF response.status >= 400 /\ response.status < 600
       THEN Raise([type |-> "HTTPError", status |-> response.status, snippet |-> <<>>])
       ELSE pc' = "json" /\ UNCHANGED exc
  /\ UNCHANGED <<argv, sys_argv, args_list, parse_outcome, args, keywords, skipped,
                 limit, days, query, now, params, pip_runs, get_count, request,
                 response, json_calls, data, articles, returned, stdout, stderr,
                 exit_status, queryVars>>

\* response.text[:500]
Snippet(text) == SubSeq(text, 1, Min(Len(text), SNIPPET_LEN))

\* lines 116-122
ParseJson ==
  /\ pc = "json"
  /\ json_calls' = json_calls + 1
  /\ IF response.body.valid
       THEN /\ data' = response.body.doc
            /\ pc' = "extract"
            /\ UNCHANGED exc
       ELSE /\ Raise([type |-> "RuntimeError", status |-> response.status,
                      snippet |-> Snippet(response.body.text)])
            /\ UNCHANGED data
  /\ UNCHANGED <<argv, sys_argv, args_list, parse_outcome, args, keywords, skipped,
                 limit, days, query, now, params, pip_runs, get_count, request,
                 response, articles, returned, stdout, stderr, exit_status, queryVars>>

\* lines 124-137
ExtractArticles ==
  /\ pc = "extract"
  /\ LET r == ExtractResults(data) IN
     IF r.error # ""
       THEN /\ Raise(Exception(r.error))
            /\ UNCHANGED <<articles, returned>>
       ELSE /\ articles' = r.results
            /\ returned' = TRUE
            /\ pc' = "print"
            /\ UNCHANGED exc
  /\ UNCHANGED <<argv, sys_argv, args_list, parse_outcome, args, keywords, skipped,
                 limit, days, query, now, params, pip_runs, get_count, request,
                 response, json_calls, data, stdout, stderr, exit_status, queryVars>>

\* the exception leaves main uncaught: no "Error:" line
HandleException_Uncaught ==
  /\ pc = "except"
  /\ Exit(1)
  /\ UNCHANGED <<argv, sys_argv, args_list, parse_outcome, args, keywords, skipped,
                 limit, days, query, now, params, pip_runs, get_count, request,
                 response, json_calls, data, articles, returned, exc, stdout, stderr,
                 queryVars>>

\* lines 218-220
HandleException ==
  /\ pc = "except"
  /\ stdout' = Append(stdout, Line("error", 0, <<exc.type>>))
  /\ Exit(1)
  /\ UNCHANGED <<argv, sys_argv, args_list, parse_outcome, args, keywords, skipped,
                 limit, days, query, now, params, pip_runs, get_count, request,
                 response, json_calls, data, articles, returned, exc, stderr,
                 queryVars>>

\* lines 222-223
PrintArticles ==
  /\ pc = "print"
  /\ stdout' = stdout \o print_articles(articles)
  /\ Exit(0)
  /\ UNCHANGED <<argv, sys_argv, args_list, parse_outcome, args, keywords, skipped,
                 limit, days, query, now, params, pip_runs, get_count, request,
                 response, json_calls, data, articles, returned, exc, stderr,
                 queryVars>>

Next ==
  \/ MainStart
  \/ ParseArgs
  \/ NormalizeKeywords
  \/ FetchArticles
  \/ ImportRequests
  \/ InstallRequests
  \/ BuildParams
  \/ HttpGet
  \/ RaiseForStatus
  \/ ParseJson
  \/ ExtractArticles
  \/ HandleException
  \/ PrintArticles

Spec == Init /\ [][Next]_vars

(***************************************************************************)
(* build_query called directly, as a library function                      *)
(***************************************************************************)
MainIdle ==
  /\ argv = None
  /\ sys_argv = <<>>
  /\ MainLocalsInit

InitQuery ==
  /\ MainIdle
  /\ q_pc = "call"
  /\ q_symbol \in QuerySymbols
  /\ q_keywords \in QueryKeywordLists
  /\ q_english \in BOOLEAN
  /\ q_result = <<>>

BuildQueryReturns ==
  /\ q_pc = "call"
  /\ ~build_query(q_symbol, q_keywords, q_english).raised
  /\ q_result' = build_query(q_symbol, q_keywords, q_english).value
  /\ q_pc' = "returned"
  /\ UNCHANGED <<mainVars, q_symbol, q_keywords, q_english>>

BuildQueryRaises ==
  /\ q_pc = "call"
  /\ build_query(q_symbol, q_keywords, q_english).raised
  /\ q_pc' = "raised"
  /\ UNCHANGED <<mainVars, q_symbol, q_keywords, q_english, q_result>>

NextQuery == BuildQueryReturns \/ BuildQueryRaises

SpecQuery == InitQuery /\ [][NextQuery]_vars

(***************************************************************************)
(* Definitions used to state the properties, computed independently of the *)
(* operators above (by index, not by recursion)                            *)
(***************************************************************************)
StartsWith(s, p) == Len(p) <= Len(s) /\ SubSeq(s, 1, Len(p)) = p
EndsWith(s, p) == Len(p) <= Len(s) /\ SubSeq(s, Len(s) - Len(p) + 1, Len(s)) = p
Occurs(p, s) == \E i \in 1..(Len(s) - Len(p) + 1) : SubSeq(s, i, i + Len(p) - 1) = p

\* s without its leading and trailing whitespace
Trimmed(s) ==
  LET solid == {i \in 1..Len(s) : s[i] \notin Whitespace} IN
  IF solid = {} THEN <<>>
  ELSE SubSeq(s, CHOOSE i \in solid : \A j \in solid : i <= j,
                 CHOOSE i \in solid : \A j \in solid : i >= j)

\* the trimmed comma-separated pieces of s, the empty ones included
PiecesOf(s) ==
  LET cuts == {0, Len(s) + 1} \cup {i \in 1..Len(s) : s[i] = ","}
      NextCut(c) == CHOOSE d \in cuts : d > c /\ \A e \in cuts : e > c => d <= e
      RECURSIVE From(_)
      From(c) == IF c = Len(s) + 1 THEN <<>>
                 ELSE <<Trimmed(SubSeq(s, c + 1, NextCut(c) - 1))>> \o From(NextCut(c))
  IN From(0)

RECURSIVE Concat(_)
Concat(seqs) == IF seqs = <<>> THEN <<>> ELSE Head(seqs) \o Concat(Tail(seqs))

\* every non-empty trimmed piece of every raw entry, in input order
NonEmptyPieces(raw) ==
  SelectSeq(Concat([i \in 1..Len(raw) |-> PiecesOf(raw[i])]), LAMBDA k : k # <<>>)

ErrorLines == SelectSeq(stdout, LAMBDA l : l.tag = "error")
LastLineIs(tag) == stdout # <<>> /\ stdout[Len(stdout)].tag = tag

(***************************************************************************)
(* C1                                                                      *)
(***************************************************************************)
\* C1 (as stated): every run ends with status 0 or 1, and every error on the
\* path from argument parsing through fetching, invalid option values
\* included, ends with status 1 and one 'Error: <message>' line.
C1_Original ==
  pc = "done" =>
    /\ exit_status \in {0, 1}
    /\ (parse_outcome = "error" \/ exc.type # "") =>
         exit_status = 1 /\ Len(ErrorLines) = 1

\* C1 (amended): a run that has not ended is at one of main's steps, and
\* every run ends with status 0, 1 or 2.  Status 2 is exactly
\* argparse's usage error (no 'Error:' line); status 0 is exactly -h or a
\* fetch that returned a list; status 1 is exactly a run without arguments or
\* an exception raised inside the try block, and then exactly one 'Error:'
\* line is printed, last, carrying the exception.
C1_ExitStatus ==
  /\ pc # "done" =>
       /\ exit_status = -1
       /\ pc \in {"start", "parse", "normalize", "fetch", "ensure", "params", "get",
                  "status", "json", "extract", "except", "print"}
  /\ pc = "done" =>
       /\ exit_status \in {0, 1, 2}
       /\ exit_status = 2 <=> parse_outcome = "error"
       /\ exit_status = 0 <=> (parse_outcome = "help" \/ returned)
       /\ exit_status = 1 <=> (args_list = <<>> \/ exc.type # "")
       /\ exc.type # "" =>
            /\ Len(ErrorLines) = 1
            /\ LastLineIs("error")
            /\ stdout[Len(stdout)].payload = <<exc.type>>
       /\ exc.type = "" => ErrorLines = <<>>

\* an invalid option value ended the run through argparse
C1_Witness ==
  /\ pc = "done"
  /\ exit_status = 2
  /\ args_list = <<T_AB, O_D, <<"x">> >>
  /\ stdout = <<>>

(***************************************************************************)
(* C2                                                                      *)
(***************************************************************************)
NoUsableInput ==
  \/ EffectiveArgs = <<>>
  \/ parse_outcome = "ok" /\ Trimmed(args.symbol) = <<>>

\* C2: a run without arguments, or with an empty or whitespace-only symbol,
\* never issues the GET nor the pip install, and ends with status 1 (the
\* examples printed, or build_query's ValueError reported).
C2_NoNetworkWithoutInput ==
  (NoUsableInput \/ pc \in {"start", "parse"}) =>
    /\ get_count = 0
    /\ pip_runs = 0
    /\ request = NoRequest
    /\ pc \in {"start", "parse", "normalize", "fetch", "except", "done"}
    /\ pc = "done" =>
         /\ exit_status = 1
         /\ EffectiveArgs = <<>> => stdout = ExampleLines /\ exc.type = ""
         /\ EffectiveArgs # <<>> => exc.type = "ValueError" /\ LastLineIs("error")

\* a whitespace-only symbol was rejected and the run ended
C2_Witness ==
  /\ pc = "done"
  /\ parse_outcome = "ok"
  /\ args.symbol = T_BLANK
  /\ exc.type = "ValueError"
  /\ exit_status = 1
  /\ get_count = 0

(***************************************************************************)
(* C3                                                                      *)
(***************************************************************************)
RequestFailed == exc.type \in {"ConnectionError", "Timeout", "HTTPError", "RuntimeError"}

\* C3: at most one GET is issued per run, to the fixed endpoint; after the
\* request has failed the run only reports the error and ends with a
\* non-zero status, without a second request.
C3_SingleRequestNoRetry ==
  /\ get_count \in {0, 1}
  /\ get_count = 1 => request.url = GDELT_URL
  /\ RequestFailed =>
       /\ get_count = 1
       /\ pc \in {"except", "done"}
       /\ pc = "done" => exit_status = 1

\* a non-success status ended the run after the single request
C3_Witness ==
  /\ pc = "done"
  /\ exc.type = "HTTPError"
  /\ get_count = 1
  /\ exit_status = 1

(***************************************************************************)
(* C4                                                                      *)
(***************************************************************************)
\* C4: the maxrecords sent lies in [1, 250]: limit itself inside the range,
\* 1 below it, 250 above it.
C4_MaxRecordsClamped ==
  get_count = 1 =>
    LET m == request.params.maxrecords IN
    /\ m >= 1 /\ m <= 250
    /\ (args.limit >= 1 /\ args.limit <= 250) => m = args.limit
    /\ args.limit < 1 => m = 1
    /\ args.limit > 250 => m = 250

\* limit 9999 was sent as 250
C4_Witness ==
  /\ get_count = 1
  /\ args.limit = 9999
  /\ request.params.maxrecords = 250

(***************************************************************************)
(* C5                                                                      *)
(***************************************************************************)
DaysBeforeYear(y) ==
  (y - 1) * 365 + ((y - 1) \div 4) - ((y - 1) \div 100) + ((y - 1) \div 400)

\* the datetime a YYYYMMDDHHMMSS stamp denotes
StampValue(s) ==
  LET y == DigitsValue(SubSeq(s, 1, 4))
      m == DigitsValue(SubSeq(s, 5, 6))
      d == DigitsValue(SubSeq(s, 7, 8))
  IN [ordinal |-> DaysBeforeYear(y) + DaysBeforeMonth(y, m) + d,
      sec |-> DigitsValue(SubSeq(s, 9, 10)) * 3600
                + DigitsValue(SubSeq(s, 11, 12)) * 60
                + DigitsValue(SubSeq(s, 13, 14))]

IsStamp(s) == Len(s) = 14 /\ AllDigits(s)

\* C5: the request carries startdatetime exactly when days > 0, and then it
\* is the time exactly days days before the clock value, as YYYYMMDDHHMMSS.
C5_StartDateTime ==
  get_count = 1 =>
    /\ ("startdatetime" \in DOMAIN request.params) <=> (args.days > 0)
    /\ args.days > 0 =>
         /\ IsStamp(request.params.startdatetime)
         /\ StampValue(request.params.startdatetime)
              = [ordinal |-> now.ordinal - args.days, sec |-> now.sec]

(***************************************************************************)
(* C6 and C7: build_query called directly                                  *)
(***************************************************************************)
ENGLISH_TAIL == <<" ", "A", "N", "D", " ">> \o SOURCELANG

ClauseOf(sym) ==
  <<"(", "\"">> \o sym \o <<"\"", " ", "O", "R", " ">> \o sym \o <<")">>

\* a keyword as the query shows it
Rendered(k) ==
  IF Contains(Trimmed(k), " ") THEN <<"\"">> \o Trimmed(k) \o <<"\"">> ELSE Trimmed(k)

\* the keywords that are not blank, in input order
NonBlankKeywords ==
  IF q_keywords.none THEN <<>>
  ELSE SelectSeq(q_keywords.v, LAMBDA k : Trimmed(k) # <<>>)

RECURSIVE OrChain(_, _)
OrChain(acc, rest) ==
  IF rest = <<>> THEN acc
  ELSE OrChain(acc \o <<" ", "O", "R", " ">> \o Rendered(Head(rest)), Tail(rest))

\* what follows the symbol clause for the keywords
ExpectedKeywordClause ==
  LET nb == NonBlankKeywords IN
  IF nb = <<>> THEN <<>>
  ELSE IF Len(nb) = 1 THEN <<" ", "A", "N", "D", " ">> \o Rendered(nb[1])
  ELSE <<" ", "A", "N", "D", " ", "(">> \o OrChain(Rendered(nb[1]), Tail(nb)) \o <<")">>

\* the part of the query between the symbol clause and the language clause
KeywordRegion ==
  SubSeq(q_result, Len(ClauseOf(Trimmed(q_symbol))) + 1,
         Len(q_result) - (IF q_english THEN Len(ENGLISH_TAIL) ELSE 0))

\* C6 (as stated): for every symbol S that is not blank the query starts
\* with ("S" OR S), S being the symbol as given.
C6_Original ==
  (q_pc # "call" /\ Trimmed(q_symbol) # <<>>) =>
    /\ q_pc = "returned"
    /\ StartsWith(q_result, ClauseOf(q_symbol))

\* C6 (amended): build_query raises exactly when the symbol is empty after
\* trimming; otherwise, with S the trimmed symbol, the query is ("S" OR S),
\* then ' AND ' and a keyword clause exactly when some keyword is non-empty
\* after trimming, then ' AND sourcelang:english' exactly when the flag is
\* true, and nothing else.
C6_QueryShape ==
  /\ q_pc = "raised" => Trimmed(q_symbol) = <<>>
  /\ q_pc = "returned" =>
       LET clause == ClauseOf(Trimmed(q_symbol))
           tail == IF q_english THEN ENGLISH_TAIL ELSE <<>>
       IN /\ Trimmed(q_symbol) # <<>>
          /\ StartsWith(q_result, clause)
          /\ EndsWith(q_result, tail)
          /\ Len(q_result) >= Len(clause) + Len(tail)
          /\ NonBlankKeywords = <<>> => KeywordRegion = <<>>
          /\ NonBlankKeywords # <<>> =>
               /\ StartsWith(KeywordRegion, <<" ", "A", "N", "D", " ">>)
               /\ Len(KeywordRegion) > 5
          /\ Occurs(clause, q_result)

\* a padded symbol with no keywords and the English filter
C6_Witness ==
  /\ q_pc = "returned"
  /\ q_symbol = T_AB_PADDED
  /\ q_keywords = Some(<<>>)
  /\ q_english
  /\ q_result = ClauseOf(T_AB) \o ENGLISH_TAIL

\* C7 (as stated): every keyword containing whitespace is rendered wrapped in
\* double quotes.
C7_Original ==
  (q_pc = "returned" /\ ~q_keywords.none) =>
    \A i \in 1..Len(q_keywords.v) :
      LET k == q_keywords.v[i] IN
      (k = Trimmed(k) /\ \E j \in 1..Len(k) : k[j] \in Whitespace) =>
        Occurs(<<"\"">> \o k \o <<"\"">>, KeywordRegion)

\* C7 (amended): keywords are trimmed and those left empty are dropped; a
\* remaining keyword is wrapped in double quotes exactly when it contains a
\* space character, else rendered bare; one remaining keyword is rendered
\* without parentheses, two or more are joined with ' OR ' in input order
\* inside one pair of parentheses.
C7_KeywordClause ==
  q_pc = "returned" => KeywordRegion = ExpectedKeywordClause

\* a phrase and a single word, OR-joined in parentheses
C7_Witness ==
  /\ q_pc = "returned"
  /\ q_keywords = Some(<<RK_PHRASE, <<"a", "b", "c">> >>)
  /\ Occurs(<<"(", "\"", "a", " ", "b", "\"", " ", "O", "R", " ", "a", "b", "c", ")">>,
            q_result)

(***************************************************************************)
(* C8                                                                      *)
(***************************************************************************)
\* normalize_keywords has just returned
Normalized == pc = "fetch"

\* C8: normalize_keywords does not raise, and every non-empty trimmed piece
\* is in exactly one list: usable when its length is at least 3, skipped
\* when it is 1 or 2, each list in input order.
C8_Partition ==
  /\ Normalized => exc = NoException /\ parse_outcome = "ok"
  /\ Normalized =>
       LET pieces == NonEmptyPieces(args.keywords.v) IN
       /\ keywords = SelectSeq(pieces, LAMBDA k : Len(k) >= 3)
       /\ skipped = SelectSeq(pieces, LAMBDA k : Len(k) \in {1, 2})
       /\ Len(keywords) + Len(skipped) = Len(pieces)
       /\ args.keywords = Some(<<RK_EXAMPLE>>) =>
            /\ keywords = << <<"a", "b", "c">>, <<"x", "y", "z">> >>
            /\ skipped = << <<"a", "b">>, <<"d", "e">> >>

\* the example of the specification was normalized
C8_Witness ==
  /\ pc = "fetch"
  /\ args.keywords = Some(<<RK_EXAMPLE>>)
  /\ keywords = << <<"a", "b", "c">>, <<"x", "y", "z">> >>
  /\ skipped = << <<"a", "b">>, <<"d", "e">> >>

(***************************************************************************)
(* C9                                                                      *)
(***************************************************************************)
StatusChecked == response # NoResponse /\ pc # "status"
FailureStatus == response.status >= 400 /\ response.status <= 599

\* C9: a failure status raises the HTTP error before the body is parsed; a
\* success status with an undecodable body raises the error carrying the
\* status and the first 500 characters of the text; neither returns a list.
C9_StatusBeforeBody ==
  /\ (StatusChecked /\ FailureStatus) =>
       /\ exc.type = "HTTPError"
       /\ json_calls = 0
       /\ data = NoData
       /\ ~returned
  /\ (StatusChecked /\ ~FailureStatus /\ ~response.body.valid /\ pc # "json") =>
       /\ exc.type = "RuntimeError"
       /\ exc.status = response.status
       /\ Len(exc.snippet) = (IF Len(response.body.text) < 500
                                THEN Len(response.body.text) ELSE 500)
       /\ StartsWith(response.body.text, exc.snippet)
       /\ ~returned
  /\ json_calls > 0 => ~FailureStatus

\* a 501-character undecodable body was cut to 500 characters
C9_Witness ==
  /\ pc = "done"
  /\ exc.type = "RuntimeError"
  /\ exc.status = 200
  /\ Len(response.body.text) = 501
  /\ Len(exc.snippet) = 500

(***************************************************************************)
(* C10                                                                     *)
(***************************************************************************)
\* C10: every decoded response becomes a result: the run ends with status 0
\* and one article per entry, and an absent articles member prints exactly
\* the no-articles message.
C10_EveryDocumentTolerated ==
  (pc = "done" /\ json_calls = 1 /\ response.body.valid) =>
    /\ returned
    /\ exit_status = 0
    /\ Len(articles) = Len(data.items)
    /\ ~data.has_articles =>
         /\ articles = <<>>
         /\ LastLineIs("no_articles")

====
